---- MODULE Spec2Model ----
(***************************************************************************)
(* Model of demo/generate_examples_for_doc.py: the registry of transform   *)
(* usage examples, the example generators, the waveform/spectrogram        *)
(* renderer and the command-line driver that exports the artifacts.        *)
(***************************************************************************)
EXTENDS Integers, Sequences, FiniteSets, TLC

VARIABLES
    transform_usage_example_classes, \* the registry dict, as a sequence of items
    regLog,             \* history: the classes passed to register, in call order
    argv,               \* the value given to --transform, or NoArg
    pc,                 \* position of the driver (__main__)
    exitCode,           \* the process exit status, -1 while running
    loopIdx,            \* index of the registry key the for-loop is at
    transform_class,    \* loop variable of the driver
    dir,                \* files in docs/waveform_transforms
    dir0,               \* history: dir when the process started
    touched,            \* history: files the process wrote or removed
    stages,             \* history: <<stage, identifier>> of each completed stage
    asset_n,            \* number of samples of the reference asset at 16 kHz
    pyRng,              \* state of the `random` module generator
    npRng,              \* state of the numpy.random generator
    gpc,                \* position inside generate_example
    gself,              \* the example class whose generate_example is running
    gtrace,             \* history: steps of the running generate_example call
    transform,          \* local of generate_example
    sound,              \* local of generate_example
    sample_rate,        \* local of generate_example
    transformed_sound,  \* local of generate_example
    result,             \* (sound, transformed_sound, sample_rate) in the driver
    results,            \* history: the results generate_example returned
    entryRng,           \* history: the random states the running call started from
    calls,              \* history: number of generate_example calls made
    figOpen,            \* pyplot's open figures
    fig,                \* local of plot_waveforms_and_spectrograms
    specshowCalls,      \* history: the specshow calls of the render
    output_file_path    \* the png path of the driver

vars == <<transform_usage_example_classes, regLog, argv, pc, exitCode, loopIdx,
          transform_class, dir, dir0, touched, stages, asset_n, pyRng, npRng,
          gpc, gself, gtrace, transform, sound, sample_rate, transformed_sound,
          result, results, entryRng, calls, figOpen, fig, specshowCalls,
          output_file_path>>

None == "None"
\* args.transform_name when the option is not given
NoArg == <<"--transform missing">>

\* ------------------------------------------------------------------ bounds
RngMod == 3          \* number of states of each modelled random generator
MaxFrames == 2       \* frames of a modelled spectrogram
MaxRegCalls == 4     \* register calls in the registry specification

\* --------------------------------------------------------------- strings
\* Strings the code folds or compares by character are sequences of
\* one-character strings.
UpperChars == <<"A","B","C","D","E","F","G","H","I","J","K","L","M",
                "N","O","P","Q","R","S","T","U","V","W","X","Y","Z">>
LowerChars == <<"a","b","c","d","e","f","g","h","i","j","k","l","m",
                "n","o","p","q","r","s","t","u","v","w","x","y","z">>

UpperToLower ==
    [c \in {UpperChars[k] : k \in 1..26} |->
        LowerChars[CHOOSE k \in 1..26 : UpperChars[k] = c]]

LowerChar(c) == IF c \in DOMAIN UpperToLower THEN UpperToLower[c] ELSE c

\* str.lower()
Lower(s) == [k \in 1..Len(s) |-> LowerChar(s[k])]

\* ------------------------------------------------- the transform classes
\* A transform class is identified by its __name__.
AddBackgroundNoise == <<"A","d","d","B","a","c","k","g","r","o","u","n","d","N","o","i","s","e">>
AddGaussianNoise == <<"A","d","d","G","a","u","s","s","i","a","n","N","o","i","s","e">>
RoomSimulator == <<"R","o","o","m","S","i","m","u","l","a","t","o","r">>
SevenBandParametricEQ == <<"S","e","v","e","n","B","a","n","d","P","a","r","a","m","e","t","r","i","c","E","Q">>
Shift == <<"S","h","i","f","t">>
TanhDistortion == <<"T","a","n","h","D","i","s","t","o","r","t","i","o","n">>
TimeStretch == <<"T","i","m","e","S","t","r","e","t","c","h">>
Trim == <<"T","r","i","m">>
\* imported but without a usage example
Gain == <<"G","a","i","n">>

\* --------------------------------------------------- the example classes
\* An example class: its name and its transform_class attribute.
AddBackgroundNoiseExample == [name |-> "AddBackgroundNoiseExample", transform_class |-> AddBackgroundNoise]
AddGaussianNoiseExample == [name |-> "AddGaussianNoiseExample", transform_class |-> AddGaussianNoise]
RoomSimulatorExample == [name |-> "RoomSimulatorExample", transform_class |-> RoomSimulator]
SevenBandParametricEQExample == [name |-> "SevenBandParametricEQExample", transform_class |-> SevenBandParametricEQ]
ShiftExample == [name |-> "ShiftExample", transform_class |-> Shift]
TanhDistortionExample == [name |-> "TanhDistortionExample", transform_class |-> TanhDistortion]
TimeStretchExample == [name |-> "TimeStretchExample", transform_class |-> TimeStretch]
TrimExample == [name |-> "TrimExample", transform_class |-> Trim]

\* The classes decorated with @register, in source order.
DecoratedClasses ==
    <<AddBackgroundNoiseExample, AddGaussianNoiseExample, RoomSimulatorExample,
      SevenBandParametricEQExample, ShiftExample, TanhDistortionExample,
      TimeStretchExample, TrimExample>>

\* ------------------------------------------------------------ the registry
\* A dict is the sequence of its items in insertion order.
DictKeys(d) == [k \in 1..Len(d) |-> d[k].key]

DictHas(d, key) == \E k \in 1..Len(d) : d[k].key = key

DictGet(d, key) == d[CHOOSE k \in 1..Len(d) : d[k].key = key].value

\* d[key] = value: a present key keeps its position and takes the new value,
\* a new key is appended.
\* Variant: every assignment appends an item.
DictSetAppendAlways(d, key, value) == Append(d, [key |-> key, value |-> value])

DictSet(d, key, value) ==
    IF DictHas(d, key)
    THEN [k \in 1..Len(d) |->
            IF d[k].key = key THEN [key |-> key, value |-> value] ELSE d[k]]
    ELSE Append(d, [key |-> key, value |-> value])

\* register(cls)
register(d, cls) == DictSet(d, cls.transform_class, cls)

RECURSIVE RegisterAll(_, _)
RegisterAll(d, classes) ==
    IF classes = <<>> THEN d
    ELSE RegisterAll(register(d, Head(classes)), Tail(classes))

\* The registry once the module has loaded.
LoadedRegistry == RegisterAll(<<>>, DecoratedClasses)

\* ------------------------------------------------------------ generators
SEED == 345
TARGET_SAMPLE_RATE == 16000

\* The two random sources are generators with RngMod states: seeding sets
\* the state from the seed alone, a draw advances it.
SeedState(s) == s % RngMod

NextRng(s) == (s + 1) % RngMod

RngStates == 0..(RngMod - 1)

\* Keyword arguments of the transform constructor in each example; float
\* values are in hundredths.
TransformKwargs(cls) ==
    CASE cls = AddBackgroundNoiseExample ->
            [sounds_path |-> "pistachio", min_snr_in_db |-> 500,
             max_snr_in_db |-> 500, p |-> 100]
      [] cls = AddGaussianNoiseExample ->
            [min_amplitude |-> 1, max_amplitude |-> 1, p |-> 100]
      [] cls = RoomSimulatorExample -> [p |-> 100]
      [] cls = SevenBandParametricEQExample ->
            [min_gain_db |-> 300, max_gain_db |-> 300, p |-> 100]
      [] cls = ShiftExample ->
            [min_fraction |-> 75, max_fraction |-> 75, rollover |-> TRUE, p |-> 100]
      [] cls = TanhDistortionExample ->
            [min_distortion |-> 25, max_distortion |-> 25, p |-> 100]
      [] cls = TimeStretchExample ->
            [min_rate |-> 125, max_rate |-> 125,
             leave_length_unchanged |-> TRUE, p |-> 100]
      [] cls = TrimExample -> [p |-> 100]
      [] OTHER -> [p |-> 100]

\* int(4.7 * sample_rate)
CropStop(sr) == (47 * sr) \div 10

Min(a, b) == IF a < b THEN a ELSE b

\* sound[..., 0:stop]: a slice stops at the end of the array.
Crop(snd, stop) == [snd EXCEPT !.n = Min(snd.n, stop)]

genVars == <<gpc, gself, gtrace, transform, sound, sample_rate,
             transformed_sound, pyRng, npRng>>

driverVars == <<argv, pc, exitCode, loopIdx, transform_class, dir, dir0,
                touched, stages, result, figOpen, fig, specshowCalls,
                output_file_path>>

regVars == <<transform_usage_example_classes, regLog>>

\* random.seed(345)
\* Variant: the call to random.seed is missing.
GenSeedRandomMissing ==
    /\ gpc = "entry"
    /\ gpc' = "seeded_random"
    /\ UNCHANGED <<gtrace, pyRng, npRng, gself, transform, sound, sample_rate, transformed_sound>>

GenSeedRandom ==
    /\ gpc = "entry"
    /\ pyRng' = SeedState(SEED)
    /\ gpc' = "seeded_random"
    /\ gtrace' = Append(gtrace, <<"random.seed", SEED>>)
    /\ UNCHANGED <<npRng, gself, transform, sound, sample_rate, transformed_sound>>

\* np.random.seed(345)
GenSeedNumpy ==
    /\ gpc = "seeded_random"
    /\ npRng' = SeedState(SEED)
    /\ gpc' = "seeded_numpy"
    /\ gtrace' = Append(gtrace, <<"np.random.seed", SEED>>)
    /\ UNCHANGED <<pyRng, gself, transform, sound, sample_rate, transformed_sound>>

\* transform = TransformClass(...): the instance may depend on draws from
\* either random source.
\* Variant: the transform is constructed before np.random.seed.
GenConstructBeforeNumpySeed ==
    /\ gpc = "seeded_random"
    /\ transform' = [cls |-> gself.transform_class,
                     kwargs |-> TransformKwargs(gself),
                     drawn |-> <<pyRng, npRng>>]
    /\ pyRng' = NextRng(pyRng)
    /\ npRng' = NextRng(npRng)
    /\ gpc' = "constructed"
    /\ gtrace' = Append(gtrace, <<"construct", gself.transform_class>>)
    /\ UNCHANGED <<gself, sound, sample_rate, transformed_sound>>

GenConstruct ==
    /\ gpc = "seeded_numpy"
    /\ transform' = [cls |-> gself.transform_class,
                     kwargs |-> TransformKwargs(gself),
                     drawn |-> <<pyRng, npRng>>]
    /\ pyRng' = NextRng(pyRng)
    /\ npRng' = NextRng(npRng)
    /\ gpc' = "constructed"
    /\ gtrace' = Append(gtrace, <<"construct", gself.transform_class>>)
    /\ UNCHANGED <<gself, sound, sample_rate, transformed_sound>>

\* sound, sample_rate = load_sound_file(librosa.example("libri1"), sample_rate=16000)
GenLoad ==
    /\ gpc = "constructed"
    /\ sound' = [asset |-> "libri1", start |-> 0, n |-> asset_n]
    /\ sample_rate' = TARGET_SAMPLE_RATE
    /\ gpc' = "loaded"
    /\ gtrace' = Append(gtrace, <<"load", "libri1">>)
    /\ UNCHANGED <<pyRng, npRng, gself, transform, transformed_sound>>

\* sound = sound[..., 0 : int(4.7 * sample_rate)]
GenCrop ==
    /\ gpc = "loaded"
    /\ sound' = Crop(sound, CropStop(sample_rate))
    /\ gpc' = "cropped"
    /\ gtrace' = Append(gtrace, <<"crop", CropStop(sample_rate)>>)
    /\ UNCHANGED <<pyRng, npRng, gself, transform, sample_rate, transformed_sound>>

\* transformed_sound = transform(sound, sample_rate): the output is a
\* function of the instance, the input and the draws from either source.
GenApply ==
    /\ gpc = "cropped"
    /\ transformed_sound' = [transform |-> transform, samples |-> sound,
                             sample_rate |-> sample_rate,
                             drawn |-> <<pyRng, npRng>>]
    /\ pyRng' = NextRng(pyRng)
    /\ npRng' = NextRng(npRng)
    /\ gpc' = "applied"
    /\ gtrace' = Append(gtrace, <<"apply", sound>>)
    /\ UNCHANGED <<gself, transform, sound, sample_rate>>

GenStep ==
    \/ GenSeedRandom
    \/ GenSeedNumpy
    \/ GenConstruct
    \/ GenLoad
    \/ GenCrop
    \/ GenApply

\* -------------------------------------------------------------- renderer
DB_RANGE == 85

Max(a, b) == IF a > b THEN a ELSE b

\* np.amax
Amax(arr) == CHOOSE m \in {arr[k] : k \in 1..Len(arr)} :
                \A k \in 1..Len(arr) : arr[k] <= m

\* librosa.amplitude_to_db(np.abs(complex_spec), ref=np.max), on magnitudes
\* given as integer levels in dB (20*log10 of the magnitude): magnitudes are
\* floored at amin = 1e-5 (-100 dB), referenced to the array's peak and
\* floored top_db = 80 dB below the result's peak.
AmplitudeToDb(S) ==
    LET floored == [k \in 1..Len(S) |-> Max(S[k], -100)]
        log_spec == [k \in 1..Len(S) |-> floored[k] - Amax(floored)]
    IN  [k \in 1..Len(S) |-> Max(log_spec[k], Amax(log_spec) - 80)]

\* vmin = vmax - 85.0
\* Variant: the floor is the 80 dB of amplitude_to_db.
VMinTopDb(vmax) == vmax - 80

VMin(vmax) == vmax - DB_RANGE

\* vmax = max(np.amax(sound_spec), np.amax(transformed_sound_spec))
VMax(sound_spec, transformed_sound_spec) ==
    Max(Amax(sound_spec), Amax(transformed_sound_spec))

\* Magnitude spectrograms librosa.stft can produce for a signal.
RawLevels == {-120, 6}

RawSpecs == UNION {[1..n -> RawLevels] : n \in 1..MaxFrames}

\* ------------------------------------------------------------ file names
PNG == <<".", "p", "n", "g">>
WEBP == <<".", "w", "e", "b", "p">>
INPUT_FLAC == <<"_", "i", "n", "p", "u", "t", ".", "f", "l", "a", "c">>
TRANSFORMED_FLAC == <<"_", "t", "r", "a", "n", "s", "f", "o", "r", "m", "e", "d",
                      ".", "f", "l", "a", "c">>

\* Path.with_suffix: the part from the last dot on is replaced.
WithSuffix(path, suffix) ==
    IF \E k \in 1..Len(path) : path[k] = "."
    THEN LET last == CHOOSE k \in 1..Len(path) :
                        /\ path[k] = "."
                        /\ \A j \in (k + 1)..Len(path) : path[j] # "."
         IN  SubSeq(path, 1, last - 1) \o suffix
    ELSE path \o suffix

\* ---------------------------------------------------------------- driver
\* choices=[c.__name__ for c in transform_usage_example_classes]
Choices == DictKeys(transform_usage_example_classes)

\* argparse: a required option whose value must be one of the choices.
\* Variant: the option has no choices list.
ArgparseAcceptsAnyValue(arg) == arg # NoArg

ArgparseAccepts(arg) ==
    /\ arg # NoArg
    /\ \E k \in 1..Len(Choices) : Choices[k] = arg

\* transform_class.__name__.lower() != args.transform_name.lower()
\* Variant: the comparison is inverted.
NameDiffersInverted(cls, name) == Lower(cls) = Lower(name)

NameDiffers(cls, name) == Lower(cls) # Lower(name)

StageOrder == <<"resolve", "generate", "render", "webp", "remove_png",
                "write_input", "write_transformed">>

ParseArgs ==
    /\ pc = "start"
    /\ IF ArgparseAccepts(argv)
       THEN /\ pc' = "loop"
            /\ loopIdx' = 1
            /\ exitCode' = exitCode
       ELSE /\ pc' = "rejected"
            /\ exitCode' = 2
            /\ loopIdx' = loopIdx
    /\ UNCHANGED <<argv, transform_class, dir, dir0, touched, stages, result, figOpen,
                   fig, specshowCalls, output_file_path>>
    /\ UNCHANGED <<genVars, regVars, asset_n, results, entryRng, calls>>

\* for transform_class in transform_usage_example_classes: ... continue
LoopContinue ==
    /\ pc = "loop"
    /\ loopIdx <= Len(transform_usage_example_classes)
    /\ NameDiffers(DictKeys(transform_usage_example_classes)[loopIdx], argv)
    /\ transform_class' = DictKeys(transform_usage_example_classes)[loopIdx]
    /\ loopIdx' = loopIdx + 1
    /\ UNCHANGED <<argv, pc, exitCode, dir, dir0, touched, stages, result, figOpen, fig,
                   specshowCalls, output_file_path>>
    /\ UNCHANGED <<genVars, regVars, asset_n, results, entryRng, calls>>

LoopMatch ==
    /\ pc = "loop"
    /\ loopIdx <= Len(transform_usage_example_classes)
    /\ ~NameDiffers(DictKeys(transform_usage_example_classes)[loopIdx], argv)
    /\ transform_class' = DictKeys(transform_usage_example_classes)[loopIdx]
    /\ pc' = "resolved"
    /\ stages' = Append(stages, <<"resolve", DictKeys(transform_usage_example_classes)[loopIdx]>>)
    /\ UNCHANGED <<argv, exitCode, loopIdx, dir, dir0, touched, result, figOpen, fig,
                   specshowCalls, output_file_path>>
    /\ UNCHANGED <<genVars, regVars, asset_n, results, entryRng, calls>>

\* The loop is exhausted: the script ends.
LoopExit ==
    /\ pc = "loop"
    /\ loopIdx > Len(transform_usage_example_classes)
    /\ pc' = "done"
    /\ exitCode' = 0
    /\ UNCHANGED <<argv, loopIdx, transform_class, dir, dir0, touched, stages, result,
                   figOpen, fig, specshowCalls, output_file_path>>
    /\ UNCHANGED <<genVars, regVars, asset_n, results, entryRng, calls>>

\* transform_usage_example_class().generate_example()
CallGenerate ==
    /\ pc = "resolved"
    /\ gself' = DictGet(transform_usage_example_classes, transform_class)
    /\ gpc' = "entry"
    /\ gtrace' = <<>>
    /\ pc' = "generating"
    /\ UNCHANGED <<argv, exitCode, loopIdx, transform_class, dir, dir0, touched, stages,
                   result, figOpen, fig, specshowCalls, output_file_path>>
    /\ UNCHANGED <<transform, sound, sample_rate, transformed_sound, pyRng, npRng>>
    /\ UNCHANGED <<regVars, asset_n, results, entryRng, calls>>

DriverGenStep ==
    /\ pc = "generating"
    /\ GenStep
    /\ UNCHANGED <<driverVars, regVars, asset_n, results, entryRng, calls>>

\* return sound, transformed_sound, sample_rate
DriverGenReturn ==
    /\ pc = "generating"
    /\ gpc = "applied"
    /\ result' = <<sound, transformed_sound, sample_rate>>
    /\ gpc' = "idle"
    /\ pc' = "generated"
    /\ stages' = Append(stages, <<"generate", transform_class>>)
    /\ UNCHANGED <<argv, exitCode, loopIdx, transform_class, dir, dir0, touched, figOpen,
                   fig, specshowCalls, output_file_path>>
    /\ transform' = None
    /\ sound' = None
    /\ sample_rate' = None
    /\ transformed_sound' = None
    /\ UNCHANGED <<gself, gtrace, pyRng, npRng>>
    /\ UNCHANGED <<regVars, asset_n, results, entryRng, calls>>

\* BASE_DIR / "docs" / "waveform_transforms" / f"{transform_class.__name__}.png",
\* then fig, axs = plt.subplots(...)
RenderSubplots ==
    /\ pc = "generated"
    /\ output_file_path' = transform_class \o PNG
    /\ fig' = Cardinality(figOpen) + 1
    /\ figOpen' = figOpen \cup {Cardinality(figOpen) + 1}
    /\ pc' = "render_fig"
    /\ UNCHANGED <<argv, exitCode, loopIdx, transform_class, dir, dir0, touched, stages,
                   result, specshowCalls>>
    /\ UNCHANGED <<genVars, regVars, asset_n, results, entryRng, calls>>

\* The waveform panels, the two spectrograms and the two specshow calls.
RenderPanels ==
    /\ pc = "render_fig"
    /\ \E raw \in RawSpecs, transformed_raw \in RawSpecs :
          LET sound_spec == AmplitudeToDb(raw)
              transformed_sound_spec == AmplitudeToDb(transformed_raw)
              vmax == VMax(sound_spec, transformed_sound_spec)
              vmin == VMin(vmax)
          IN  specshowCalls' =
                <<[data |-> sound_spec, ax |-> <<1, 0>>,
                   vmax |-> vmax, vmin |-> vmin, sr |-> result[3]],
                  [data |-> transformed_sound_spec, ax |-> <<1, 1>>,
                   vmax |-> vmax, vmin |-> vmin, sr |-> result[3]]>>
    /\ pc' = "render_panels"
    /\ UNCHANGED <<argv, exitCode, loopIdx, transform_class, dir, dir0, touched, stages,
                   result, figOpen, fig, output_file_path>>
    /\ UNCHANGED <<genVars, regVars, asset_n, results, entryRng, calls>>

\* plt.savefig(output_file_path, dpi=200)
RenderSavefig ==
    /\ pc = "render_panels"
    /\ dir' = dir \cup {output_file_path}
    /\ touched' = touched \cup {output_file_path}
    /\ pc' = "render_saved"
    /\ UNCHANGED <<argv, exitCode, loopIdx, transform_class, dir0, stages,
                   result, figOpen, fig, specshowCalls, output_file_path>>
    /\ UNCHANGED <<genVars, regVars, asset_n, results, entryRng, calls>>

\* plt.close(fig), and the call returns
RenderClose ==
    /\ pc = "render_saved"
    /\ figOpen' = figOpen \ {fig}
    /\ pc' = "rendered"
    /\ stages' = Append(stages, <<"render", transform_class>>)
    /\ UNCHANGED <<argv, exitCode, loopIdx, transform_class, dir, dir0, touched, result,
                   fig, specshowCalls, output_file_path>>
    /\ UNCHANGED <<genVars, regVars, asset_n, results, entryRng, calls>>

\* Image.open(output_file_path).save(output_file_path.with_suffix(".webp"), ...)
SaveWebp ==
    /\ pc = "rendered"
    /\ output_file_path \in dir
    /\ dir' = dir \cup {WithSuffix(output_file_path, WEBP)}
    /\ touched' = touched \cup {WithSuffix(output_file_path, WEBP)}
    /\ pc' = "webp_saved"
    /\ stages' = Append(stages, <<"webp", transform_class>>)
    /\ UNCHANGED <<argv, exitCode, loopIdx, transform_class, dir0, result,
                   figOpen, fig, specshowCalls, output_file_path>>
    /\ UNCHANGED <<genVars, regVars, asset_n, results, entryRng, calls>>

\* os.remove(output_file_path)
\* Variant: the png is left in place.
RemovePngSkipped ==
    /\ pc = "webp_saved"
    /\ pc' = "png_removed"
    /\ stages' = Append(stages, <<"remove_png", transform_class>>)
    /\ UNCHANGED <<argv, exitCode, loopIdx, transform_class, dir, dir0, touched, result,
                   figOpen, fig, specshowCalls, output_file_path>>
    /\ UNCHANGED <<genVars, regVars, asset_n, results, entryRng, calls>>

RemovePng ==
    /\ pc = "webp_saved"
    /\ output_file_path \in dir
    /\ dir' = dir \ {output_file_path}
    /\ touched' = touched \cup {output_file_path}
    /\ pc' = "png_removed"
    /\ stages' = Append(stages, <<"remove_png", transform_class>>)
    /\ UNCHANGED <<argv, exitCode, loopIdx, transform_class, dir0, result,
                   figOpen, fig, specshowCalls, output_file_path>>
    /\ UNCHANGED <<genVars, regVars, asset_n, results, entryRng, calls>>

\* soundfile.write(.../f"{transform_class.__name__}_input.flac", sound, sample_rate)
WriteInput ==
    /\ pc = "png_removed"
    /\ dir' = dir \cup {transform_class \o INPUT_FLAC}
    /\ touched' = touched \cup {transform_class \o INPUT_FLAC}
    /\ pc' = "input_written"
    /\ stages' = Append(stages, <<"write_input", transform_class>>)
    /\ UNCHANGED <<argv, exitCode, loopIdx, transform_class, dir0, result,
                   figOpen, fig, specshowCalls, output_file_path>>
    /\ UNCHANGED <<genVars, regVars, asset_n, results, entryRng, calls>>

\* soundfile.write(.../f"{transform_class.__name__}_transformed.flac", ...);
\* the loop body ends and the for statement takes the next key.
WriteTransformed ==
    /\ pc = "input_written"
    /\ dir' = dir \cup {transform_class \o TRANSFORMED_FLAC}
    /\ touched' = touched \cup {transform_class \o TRANSFORMED_FLAC}
    /\ pc' = "loop"
    /\ loopIdx' = loopIdx + 1
    /\ stages' = Append(stages, <<"write_transformed", transform_class>>)
    /\ UNCHANGED <<argv, exitCode, transform_class, dir0, result, figOpen, fig,
                   specshowCalls, output_file_path>>
    /\ UNCHANGED <<genVars, regVars, asset_n, results, entryRng, calls>>

\* The statement the driver is at raises: the exception is caught nowhere,
\* so the process ends with status 1.  A statement that writes a file may
\* have created it before failing.
RaisingPositions ==
    {"render_fig", "render_panels", "rendered", "webp_saved", "png_removed",
     "input_written"}

RaisingGenPositions == {"seeded_numpy", "constructed", "cropped"}

FileBeingWritten ==
    CASE pc = "render_panels" -> {output_file_path}
      [] pc = "rendered" -> {WithSuffix(output_file_path, WEBP)}
      [] pc = "png_removed" -> {transform_class \o INPUT_FLAC}
      [] pc = "input_written" -> {transform_class \o TRANSFORMED_FLAC}
      [] OTHER -> {}

\* Variant: the exception is caught and the loop goes on.
RaiseSwallowed ==
    /\ \/ pc \in RaisingPositions
       \/ pc = "generating" /\ gpc \in RaisingGenPositions
    /\ pc' = "loop"
    /\ loopIdx' = loopIdx + 1
    /\ UNCHANGED <<argv, exitCode, transform_class, dir, dir0, touched, stages,
                   result, figOpen, fig, specshowCalls, output_file_path>>
    /\ UNCHANGED <<genVars, regVars, asset_n, results, entryRng, calls>>

Raise ==
    /\ \/ pc \in RaisingPositions
       \/ pc = "generating" /\ gpc \in RaisingGenPositions
    /\ \E left \in SUBSET FileBeingWritten :
          /\ dir' = dir \cup left
          /\ touched' = touched \cup left
    /\ pc' = "aborted"
    /\ exitCode' = 1
    /\ UNCHANGED <<argv, loopIdx, transform_class, dir0, stages, result,
                   figOpen, fig, specshowCalls, output_file_path>>
    /\ UNCHANGED <<genVars, regVars, asset_n, results, entryRng, calls>>

\* ------------------------------------------------- the driver specification
\* Files the output directory may hold before a run.
PreExisting == {Trim \o PNG, Gain \o WEBP}

\* Lengths of the reference asset: shorter and longer than the crop window.
AssetLens == {3 * TARGET_SAMPLE_RATE, 15 * TARGET_SAMPLE_RATE}

RegisteredNames == {DictKeys(LoadedRegistry)[k] : k \in 1..Len(LoadedRegistry)}

ArgValues ==
    RegisteredNames
      \cup {Lower(n) : n \in RegisteredNames}
      \cup {<<"T", "R", "I", "M">>, Gain, SubSeq(Trim, 1, 3), Trim \o <<"s">>, <<>>, NoArg}

GenIdle ==
    /\ gpc = "idle"
    /\ gself = None
    /\ gtrace = <<>>
    /\ transform = None
    /\ sound = None
    /\ sample_rate = None
    /\ transformed_sound = None

DriverOff ==
    /\ argv = NoArg
    /\ pc = "off"
    /\ exitCode = -1
    /\ loopIdx = 0
    /\ transform_class = None
    /\ dir = {}
    /\ dir0 = {}
    /\ touched = {}
    /\ stages = <<>>
    /\ result = None
    /\ figOpen = {}
    /\ fig = None
    /\ specshowCalls = <<>>
    /\ output_file_path = None

Init ==
    /\ transform_usage_example_classes = LoadedRegistry
    /\ regLog = DecoratedClasses
    /\ argv \in ArgValues
    /\ pc = "start"
    /\ exitCode = -1
    /\ loopIdx = 0
    /\ transform_class = None
    /\ dir \in SUBSET PreExisting
    /\ dir0 = dir
    /\ touched = {}
    /\ stages = <<>>
    /\ result = None
    /\ figOpen = {}
    /\ fig = None
    /\ specshowCalls = <<>>
    /\ output_file_path = None
    /\ asset_n \in AssetLens
    /\ pyRng \in RngStates
    /\ npRng \in RngStates
    /\ GenIdle
    /\ results = {}
    /\ entryRng = <<>>
    /\ calls = 0

Next ==
    \/ ParseArgs
    \/ LoopContinue
    \/ LoopMatch
    \/ LoopExit
    \/ CallGenerate
    \/ DriverGenStep
    \/ DriverGenReturn
    \/ RenderSubplots
    \/ RenderPanels
    \/ RenderSavefig
    \/ RenderClose
    \/ SaveWebp
    \/ RemovePng
    \/ WriteInput
    \/ WriteTransformed
    \/ Raise

Spec == Init /\ [][Next]_vars

\* ----------------------------------------------- the registry specification
\* Classes handed to register: two transforms have a second example class.
RegClasses ==
    {TrimExample, [name |-> "TrimExample2", transform_class |-> Trim],
     ShiftExample, [name |-> "ShiftExample2", transform_class |-> Shift],
     TimeStretchExample}

InitReg ==
    /\ transform_usage_example_classes = <<>>
    /\ regLog = <<>>
    /\ DriverOff
    /\ GenIdle
    /\ asset_n = 0
    /\ pyRng = 0
    /\ npRng = 0
    /\ results = {}
    /\ entryRng = <<>>
    /\ calls = 0

\* @register on a class definition
RegisterCall ==
    /\ Len(regLog) < MaxRegCalls
    /\ \E cls \in RegClasses :
          /\ transform_usage_example_classes' =
                register(transform_usage_example_classes, cls)
          /\ regLog' = Append(regLog, cls)
    /\ UNCHANGED <<driverVars, genVars, asset_n, results, entryRng, calls>>

NextReg == RegisterCall

SpecReg == InitReg /\ [][NextReg]_vars

\* --------------------------------------------- the generator specification
\* generate_example of any registered class is called, from any state of
\* the two random sources.
ExampleClasses == {LoadedRegistry[k].value : k \in 1..Len(LoadedRegistry)}

InitGen ==
    /\ transform_usage_example_classes = LoadedRegistry
    /\ regLog = DecoratedClasses
    /\ DriverOff
    /\ GenIdle
    /\ asset_n \in AssetLens
    /\ pyRng \in RngStates
    /\ npRng \in RngStates
    /\ results = {}
    /\ entryRng = <<>>
    /\ calls = 0

\* The first call, of any registered example class.
HarnessFirstCall ==
    /\ gpc = "idle"
    /\ calls = 0
    /\ \E cls \in ExampleClasses : gself' = cls
    /\ gpc' = "entry"
    /\ gtrace' = <<>>
    /\ entryRng' = <<pyRng, npRng>>
    /\ calls' = calls + 1
    /\ UNCHANGED <<transform, sound, sample_rate, transformed_sound, pyRng, npRng>>
    /\ UNCHANGED <<driverVars, regVars, asset_n, results>>

\* The second call, of the same example class.
HarnessSecondCall ==
    /\ gpc = "returned"
    /\ calls = 1
    /\ gpc' = "entry"
    /\ gtrace' = <<>>
    /\ entryRng' = <<pyRng, npRng>>
    /\ calls' = calls + 1
    /\ UNCHANGED <<gself, transform, sound, sample_rate, transformed_sound,
                   pyRng, npRng>>
    /\ UNCHANGED <<driverVars, regVars, asset_n, results>>

HarnessGenStep ==
    /\ GenStep
    /\ UNCHANGED <<driverVars, regVars, asset_n, results, entryRng, calls>>

\* return sound, transformed_sound, sample_rate
HarnessGenReturn ==
    /\ gpc = "applied"
    /\ results' = results \cup
                      {[entry |-> entryRng,
                        value |-> <<sound, transformed_sound, sample_rate>>]}
    /\ gpc' = "returned"
    /\ transform' = None
    /\ sound' = None
    /\ sample_rate' = None
    /\ transformed_sound' = None
    /\ result' = <<sound, transformed_sound, sample_rate>>
    /\ UNCHANGED <<gself, gtrace, pyRng, npRng>>
    /\ UNCHANGED <<argv, pc, exitCode, loopIdx, transform_class, dir, dir0,
                   touched, stages, figOpen, fig, specshowCalls, output_file_path>>
    /\ UNCHANGED <<regVars, asset_n, entryRng, calls>>

\* Other code of the process draws from the random sources between calls.
HarnessConsumeRandom ==
    /\ gpc = "returned"
    /\ calls = 1
    /\ \E py \in RngStates, np \in RngStates :
          /\ <<py, np>> # <<pyRng, npRng>>
          /\ pyRng' = py
          /\ npRng' = np
    /\ UNCHANGED <<gpc, gself, gtrace, transform, sound, sample_rate,
                   transformed_sound>>
    /\ UNCHANGED <<driverVars, regVars, asset_n, results, entryRng, calls>>

NextGen ==
    \/ HarnessFirstCall
    \/ HarnessSecondCall
    \/ HarnessGenStep
    \/ HarnessGenReturn
    \/ HarnessConsumeRandom

SpecGen == InitGen /\ [][NextGen]_vars

\* ================================================================= claims
IsPrefix(a, b) ==
    /\ Len(a) <= Len(b)
    /\ \A k \in 1..Len(a) : a[k] = b[k]

StageNames == [k \in 1..Len(stages) |-> stages[k][1]]

Artifacts(X) == {X \o WEBP, X \o INPUT_FLAC, X \o TRANSFORMED_FLAC}

\* C1: a --transform value that is no registered identifier ends the run in
\* argument validation with a non-zero exit status: no stage has run (no
\* generator step, no figure, no specshow call, no completed stage) and no
\* file of the output directory was created, written or removed.
C1_UnregisteredRejectedWithoutEffect ==
    (pc # "start" /\ \A k \in 1..Len(Choices) : Choices[k] # argv) =>
        /\ pc = "rejected"
        /\ exitCode > 0
        /\ stages = <<>>
        /\ gpc = "idle"
        /\ gtrace = <<>>
        /\ figOpen = {}
        /\ specshowCalls = <<>>
        /\ dir = dir0
        /\ touched = {}

C1_Witness ==
    /\ pc = "rejected"
    /\ argv = Gain
    /\ dir0 = PreExisting

\* C2: the accepted --transform values are exactly the strings that equal a
\* registered identifier after case folding: once argument validation is
\* over, the value was rejected if and only if no registered identifier
\* folds to the same string.
C2_AcceptedSetIsCaseInsensitive ==
    pc # "start" =>
        ((pc = "rejected") <=>
            ~\E k \in 1..Len(Choices) : Lower(Choices[k]) = Lower(argv))

\* C3: when a run in which the pipeline ran ends without a failure, the
\* output directory holds what it held before, without X.png, plus X.webp,
\* X_input.flac and X_transformed.flac, and the run wrote no file but these
\* and the png it removed.
C3_ExactlyThreeArtifacts ==
    (pc = "done" /\ stages # <<>>) =>
        LET X == stages[1][2]
        IN  /\ dir = (dir0 \ {X \o PNG}) \cup Artifacts(X)
            /\ X \o PNG \notin dir
            /\ touched = Artifacts(X) \cup {X \o PNG}

C3_Witness ==
    /\ pc = "done"
    /\ Len(stages) = Len(StageOrder)
    /\ argv = Trim
    /\ Trim \o PNG \in dir0
    /\ Gain \o WEBP \in dir

\* C4: outside a render call no figure is open: the figure of a render call
\* is closed when the call returns and when it raises.
C4_FigureClosedOnEveryExit ==
    pc \notin {"render_fig", "render_panels", "render_saved"} => figOpen = {}

\* C5: the stages complete in the order resolve, generate, render, webp,
\* remove png, write input, write transformed, each once and for one
\* identifier; the driver's position allows a stage only when the stages
\* before it have completed; every move of the driver is the next step of
\* that order, the end of the run, or an abort, and nothing runs after an
\* abort or a rejection.
StagesCompletedAt ==
    CASE pc \in {"start", "rejected"} -> {0}
      [] pc \in {"resolved", "generating"} -> {1}
      [] pc \in {"generated", "render_fig", "render_panels", "render_saved"} -> {2}
      [] pc = "rendered" -> {3}
      [] pc = "webp_saved" -> {4}
      [] pc = "png_removed" -> {5}
      [] pc = "input_written" -> {6}
      [] pc \in {"loop", "done"} -> {0, 7}
      [] OTHER -> 1..6

DriverEdges ==
    {<<"start", "loop">>, <<"start", "rejected">>, <<"loop", "resolved">>,
     <<"loop", "done">>, <<"resolved", "generating">>,
     <<"generating", "generated">>, <<"generated", "render_fig">>,
     <<"render_fig", "render_panels">>, <<"render_panels", "render_saved">>,
     <<"render_saved", "rendered">>, <<"rendered", "webp_saved">>,
     <<"webp_saved", "png_removed">>, <<"png_removed", "input_written">>,
     <<"input_written", "loop">>}
      \cup {<<p, "aborted">> : p \in RaisingPositions \cup {"generating"}}

C5_StagesInOrderAndFailureAborts ==
    /\ [](/\ IsPrefix(StageNames, StageOrder)
          /\ Len(stages) \in StagesCompletedAt
          /\ \A k \in 1..Len(stages) : stages[k][2] = stages[1][2])
    /\ [][/\ pc' # pc => <<pc, pc'>> \in DriverEdges
          /\ pc \in {"aborted", "rejected", "done"} => UNCHANGED vars
          /\ stages' # stages =>
                /\ Len(stages') = Len(stages) + 1
                /\ IsPrefix(stages, stages')]_vars

C5_Witness ==
    /\ pc = "aborted"
    /\ Len(stages) = 5
    /\ touched # {}

\* C6: the results of two generate_example calls of one example class are
\* identical, whatever the states of the two random sources were when each
\* call started.
C6_GenerateIsDeterministic ==
    \A r1 \in results, r2 \in results : r1.value = r2.value

C6_Witness ==
    /\ gpc = "returned"
    /\ calls = 2
    /\ \E r1 \in results, r2 \in results :
          /\ r1.entry[1] # r2.entry[1]
          /\ r1.entry[2] # r2.entry[2]
          /\ r1.entry[1] # SeedState(SEED)

\* C7: after any sequence of register calls the registry has one entry per
\* identifier, holding the class of the identifier's latest registration,
\* and its keys are the identifiers in order of first registration.
RECURSIVE FirstSeen(_, _)
FirstSeen(ids, seen) ==
    IF ids = <<>> THEN <<>>
    ELSE IF Head(ids) \in seen THEN FirstSeen(Tail(ids), seen)
    ELSE <<Head(ids)>> \o FirstSeen(Tail(ids), seen \cup {Head(ids)})

C7_RegistryOneEntryPerIdentifier ==
    LET d == transform_usage_example_classes
        keys == DictKeys(d)
        logged == [k \in 1..Len(regLog) |-> regLog[k].transform_class]
    IN  /\ \A i \in 1..Len(keys), j \in 1..Len(keys) : i # j => keys[i] # keys[j]
        /\ keys = FirstSeen(logged, {})
        /\ \A k \in 1..Len(regLog) :
              (\A j \in (k + 1)..Len(regLog) : logged[j] # logged[k])
                 => DictGet(d, logged[k]) = regLog[k]

C7_Witness ==
    /\ Len(regLog) = 3
    /\ regLog[1].transform_class = regLog[3].transform_class
    /\ regLog[1] # regLog[3]
    /\ regLog[2].transform_class # regLog[1].transform_class

\* C8: the two specshow calls of a render get the same vmax and the same
\* vmin, vmax is the largest value of the two dB arrays, and vmax - vmin = 85.
C8_SharedColorScale ==
    specshowCalls # <<>> =>
        LET orig == specshowCalls[1]
            trans == specshowCalls[2]
            values == {orig.data[k] : k \in 1..Len(orig.data)}
                        \cup {trans.data[k] : k \in 1..Len(trans.data)}
        IN  /\ orig.ax = <<1, 0>>
            /\ trans.ax = <<1, 1>>
            /\ orig.vmax = trans.vmax
            /\ orig.vmin = trans.vmin
            /\ orig.vmax \in values
            /\ \A v \in values : v <= orig.vmax
            /\ orig.vmax - orig.vmin = 85

C8_Witness ==
    /\ pc = "rendered"
    /\ Len(specshowCalls) = 2
    /\ Len(specshowCalls[1].data) # Len(specshowCalls[2].data)
    /\ \E k \in 1..Len(specshowCalls[2].data) : specshowCalls[2].data[k] < 0

\* C9: within a generate_example call the steps are, in this order: seed
\* random with 345, seed numpy.random with 345, construct the transform,
\* load the asset, crop it to int(4.7 * 16000) samples, apply the transform
\* to the cropped buffer; the transform is constructed from the seeded
\* states of both sources, and the original returned is the cropped buffer.
ExpectedSteps ==
    LET cropped == [asset |-> "libri1", start |-> 0,
                    n |-> Min(asset_n, CropStop(TARGET_SAMPLE_RATE))]
    IN  <<<<"random.seed", SEED>>, <<"np.random.seed", SEED>>,
          <<"construct", gself.transform_class>>, <<"load", "libri1">>,
          <<"crop", CropStop(TARGET_SAMPLE_RATE)>>, <<"apply", cropped>>>>

C9_GeneratorStepOrder ==
    gpc # "idle" =>
        /\ Len(gtrace) <= Len(ExpectedSteps)
        /\ \A k \in 1..Len(gtrace) : gtrace[k][1] = ExpectedSteps[k][1]
        /\ \A k \in 1..Len(gtrace) : gtrace[k][2] = ExpectedSteps[k][2]
        /\ gpc \in {"constructed", "loaded", "cropped", "applied"} =>
              transform.drawn = <<SeedState(SEED), SeedState(SEED)>>
        /\ gpc = "returned" =>
              /\ Len(gtrace) = Len(ExpectedSteps)
              /\ result[1] = gtrace[Len(gtrace)][2]
              /\ result[2].samples = result[1]

C9_Witness ==
    /\ gpc = "returned"
    /\ gself = TimeStretchExample
    /\ entryRng[1] # SeedState(SEED)
    /\ entryRng[2] # entryRng[1]
    /\ result[1].n = CropStop(TARGET_SAMPLE_RATE)

\* C10: no two registered identifiers are equal after case folding, and a
\* run whose --transform value passed validation ends having run the
\* pipeline exactly once, for the one registry entry that folds to the same
\* string as the value, with the files it wrote named by that entry's
\* identifier.
C10_PipelineRunsOnceForOneEntry ==
    /\ pc \in {"start", "done"} =>
          \A i \in 1..Len(Choices) : \A j \in (i + 1)..Len(Choices) :
             Lower(Choices[i]) # Lower(Choices[j])
    /\ Len(stages) <= Len(StageOrder)
    /\ \A s \in 1..Len(stages) : Lower(stages[s][2]) = Lower(argv)
    /\ pc = "done" =>
          /\ StageNames = StageOrder
          /\ \E k \in 1..Len(Choices) :
                /\ Lower(Choices[k]) = Lower(argv)
                /\ \A s \in 1..Len(stages) : stages[s][2] = Choices[k]
                /\ touched = Artifacts(Choices[k]) \cup {Choices[k] \o PNG}
                /\ gself = DictGet(transform_usage_example_classes, Choices[k])

C10_Witness ==
    /\ pc = "done"
    /\ argv = Shift
    /\ StageNames = StageOrder
    /\ loopIdx = Len(transform_usage_example_classes) + 1

====
